---- MODULE Spec2Model ----
(***************************************************************************)
(* Model of src/app.py: the /api/solve handler (solve_exam), the batch     *)
(* orchestrator (process_batch), the per-question evaluator                *)
(* (evaluate_single_question) and the image fetcher (fetch_image_base64).  *)
(*                                                                         *)
(* One behaviour is one HTTP request.  Python values are tagged records:   *)
(* a dict is [py |-> "dict", d |-> <record>], a raised exception is        *)
(* [py |-> "exception", name |-> <class>], None is [py |-> "none"].        *)
(* A coroutine runs atomically between two awaits, so the steps of the     *)
(* model are the awaits of the code: the image fetch (line 88), the model  *)
(* call (line 101) and the gather (line 140).                              *)
(***************************************************************************)
EXTENDS Integers, Sequences, FiniteSets, TLC

\* Largest number of elements of a submitted array.
MaxBatch == 2

VARIABLES
    request,     \* the HTTP request: content type and body
    pc,          \* position of solve_exam: "received", "gathering", "responded"
    started,     \* process_batch has been started for this request
    tpc,         \* per question: "fetching", "calling" or "done"
    ret,         \* per question: what its coroutine returned or raised
    fetchOut,    \* per question: how its image fetch ended ("none" when not ended)
    vlm,         \* per question: how its model call ended ("none" when not ended)
    modelCalls,  \* per question: number of model calls issued
    order,       \* indices of the finished questions, in completion order
    response     \* the HTTP response: status and body

vars == <<request, pc, started, tpc, ret, fetchOut, vlm, modelCalls, order, response>>

----------------------------------------------------------------------------
(* Python values *)

PyNone == [py |-> "none"]
PyStr(s) == [py |-> "str", s |-> s]
Dict(d) == [py |-> "dict", d |-> d]
Exc(name) == [py |-> "exception", name |-> name]
Pending == [py |-> "pending"]

\* isinstance(res, dict)
IsDict(v) == v.py = "dict"
IsExc(v) == v.py = "exception"

\* Truthiness of None and of a str, as `if base64_image:` tests it.
PyTruthy(v) == v.py = "str" /\ v.s # ""

RECURSIVE SumSeq(_)
SumSeq(s) == IF s = <<>> THEN 0 ELSE Head(s) + SumSeq(Tail(s))

Range(s) == {s[i] : i \in DOMAIN s}

----------------------------------------------------------------------------
(* Requests *)

QuestionTypes == {"numerical", "msq", "mcq", "essay"}
ImageUrls == {"http://img"}

\* The question objects whose question_id is i: question_type and image_url
\* are each present or absent.
QuestionsAt(i) ==
    {[question_id |-> i]}
    \cup {[question_id |-> i, question_type |-> t] : t \in QuestionTypes}
    \cup {[question_id |-> i, image_url |-> u] : u \in ImageUrls}
    \cup {[question_id |-> i, question_type |-> t, image_url |-> u] :
              t \in QuestionTypes, u \in ImageUrls}

\* The JSON values an array can hold at position i: a question object, or a
\* value that is no object.
ElementsAt(i) ==
    {[type |-> "object", obj |-> q] : q \in QuestionsAt(i)}
    \cup {[type |-> "number", num |-> 5]}

Arrays(n) ==
    {s \in [1..n -> UNION {ElementsAt(i) : i \in 1..n}] :
        \A i \in 1..n : s[i] \in ElementsAt(i)}

JsonValues ==
    {[type |-> "null"]}
    \cup {[type |-> "object", keys |-> k] : k \in {{}, {"foo"}}}
    \cup {[type |-> "number", num |-> x] : x \in {0, 5}}
    \cup {[type |-> "string", str |-> x] : x \in {"", "x"}}
    \cup {[type |-> "array", items |-> s] : s \in UNION {Arrays(n) : n \in 0..MaxBatch}}

Bodies ==
    {[raw |-> "missing"], [raw |-> "malformed"]}
    \cup {[raw |-> "json", json |-> j] : j \in JsonValues}

Requests == {[ctype |-> c, body |-> b] : c \in {"json", "other"}, b \in Bodies}

\* bool(payload) of a parsed JSON value.
Truthy(j) ==
    CASE j.type = "null" -> FALSE
      [] j.type = "object" -> j.keys # {}
      [] j.type = "number" -> j.num # 0
      [] j.type = "string" -> j.str # ""
      [] j.type = "array" -> Len(j.items) > 0

\* isinstance(payload, list)
IsList(j) == j.type = "array"

\* request.get_json() with its default arguments.  A body that is absent or
\* does not parse, under a JSON content type, raises BadRequest; under any
\* other content type the call returns None or raises UnsupportedMediaType,
\* depending on the Flask release.
GetJson(req) ==
    IF req.ctype # "json"
    THEN {PyNone, Exc("UnsupportedMediaType")}
    ELSE IF req.body.raw # "json"
         THEN {Exc("BadRequest")}
         ELSE {[py |-> "json", json |-> req.body.json]}

----------------------------------------------------------------------------
(* evaluate_single_question *)

\* question.get("question_type", "mcq")
QuestionType(q) == IF "question_type" \in DOMAIN q THEN q.question_type ELSE "mcq"

\* image_url = question.get("image_url"); `if image_url:`
HasImage(q) == "image_url" \in DOMAIN q /\ q.image_url # ""

\* Variant: only "mcq" selects the single-index schema.
ResponseFormatMsqByDefault(question_type) ==
    IF question_type = "numerical" THEN "TextAnswer"
    ELSE IF question_type = "mcq" THEN "MCQAnswer"
    ELSE "MSQAnswer"
\* Lines 51-73: the response schema chosen by question_type.
ResponseFormat(question_type) ==
    IF question_type = "numerical" THEN "TextAnswer"
    ELSE IF question_type = "msq" THEN "MSQAnswer"
    ELSE "MCQAnswer"

ErrorResult(question_id, message) ==
    Dict([question_id |-> question_id, error |-> message])

----------------------------------------------------------------------------
(* fetch_image_base64 *)

\* How session.get(url, timeout=10) followed by raise_for_status() and read()
\* can end: a body (possibly of zero bytes), a connection error
\* (aiohttp.ClientConnectionError), an error status (ClientResponseError),
\* or the total timeout of 10 expiring (asyncio.TimeoutError, which is no
\* aiohttp.ClientError).
FetchOutcomes == {"ok", "ok_empty", "connection_error", "http_error", "timeout"}

\* base64.b64encode(image_data).decode('utf-8')
B64Encode(data) == IF data = "" THEN "" ELSE "aW1n"

FetchImageBase64(out) ==
    CASE out = "ok" -> PyStr(B64Encode("img"))
      [] out = "ok_empty" -> PyStr(B64Encode(""))
      [] out \in {"connection_error", "http_error"} -> PyNone
      [] out = "timeout" -> Exc("TimeoutError")

----------------------------------------------------------------------------
(* The model call and the result payload *)

Usages ==
    {[prompt_tokens |-> 3, completion_tokens |-> 1, total_tokens |-> 4],
     [prompt_tokens |-> 5, completion_tokens |-> 2, total_tokens |-> 8]}

TextValues == {"42"}

\* message.parsed of a completion: an instance of the response format, or
\* None when the model refused.
ParsedNone == [cls |-> "NoneType"]

ParsedValues(response_format) ==
    CASE response_format = "TextAnswer" ->
            {[cls |-> "TextAnswer", text_answer |-> t] : t \in TextValues}
      [] response_format = "MSQAnswer" ->
            {[cls |-> "MSQAnswer", option_indices |-> s] : s \in {<<>>, <<0, 2>>}}
      [] response_format = "MCQAnswer" ->
            {[cls |-> "MCQAnswer", option_index |-> 1]}

\* What client.beta.chat.completions.parse can give back: an exception
\* (network, schema validation), or a completion.
ModelResponses(response_format) ==
    {[kind |-> "raised"]}
    \cup {[kind |-> "completion", parsed |-> p, usage |-> u] :
             p \in ParsedValues(response_format) \cup {ParsedNone}, u \in Usages}

VlmKind(resp) ==
    IF resp.kind = "raised" THEN "raised"
    ELSE IF resp.parsed = ParsedNone THEN "refusal" ELSE "parsed"

HasAttr(o, a) == a \in DOMAIN o

\* str() of a value that is a str already.
Str(s) == s

\* Lines 111-130: the payload, or the AttributeError of reading an attribute
\* the parsed object does not have.
ResultPayload(question_id, question_type, resp) ==
    LET parsed == resp.parsed
        result_payload ==
            [question_id |-> question_id,
             question_type |-> question_type,
             tokens_used |-> [input_tokens |-> resp.usage.prompt_tokens,
                              output_tokens |-> resp.usage.completion_tokens,
                              total_tokens |-> resp.usage.total_tokens]]
    IN IF question_type = "numerical"
       THEN IF HasAttr(parsed, "text_answer")
            THEN Dict(result_payload @@ [text_answer |-> Str(parsed.text_answer)])
            ELSE Exc("AttributeError")
       ELSE IF question_type = "msq"
       THEN IF HasAttr(parsed, "option_indices")
            THEN Dict(result_payload @@ [option_indices |-> parsed.option_indices])
            ELSE Exc("AttributeError")
       ELSE IF HasAttr(parsed, "option_index")
            THEN Dict(result_payload @@ [option_indices |-> <<parsed.option_index>>])
            ELSE Exc("AttributeError")

\* Lines 100-134: the try block around the model call and the payload.
AfterModelCall(question_id, question_type, resp) ==
    IF resp.kind = "raised"
    THEN ErrorResult(question_id, "VLM processing failed")
    ELSE LET r == ResultPayload(question_id, question_type, resp)
         IN IF IsExc(r) THEN ErrorResult(question_id, "VLM processing failed") ELSE r

\* Lines 44-88 or 44-101: a coroutine from its start to its first await.  An
\* element that is no object has no get().
EvaluateStart(elem) ==
    IF elem.type # "object"
    THEN [tpc |-> "done", ret |-> Exc("AttributeError"), calls |-> 0]
    ELSE IF HasImage(elem.obj)
         THEN [tpc |-> "fetching", ret |-> Pending, calls |-> 0]
         ELSE [tpc |-> "calling", ret |-> Pending, calls |-> 1]

\* Lines 88-98: what follows the image fetch.
AfterFetch(question_id, fetched) ==
    IF IsExc(fetched)
    THEN [tpc |-> "done", ret |-> fetched, calls |-> 0]
    ELSE IF PyTruthy(fetched)
         THEN [tpc |-> "calling", ret |-> Pending, calls |-> 1]
         ELSE [tpc |-> "done", ret |-> ErrorResult(question_id, "Image fetch failed"),
               calls |-> 0]

----------------------------------------------------------------------------
(* process_batch *)

\* Variant: the coroutines awaited one after the other.
CanRunSequential(i) == \A j \in 1..(i - 1) : tpc[j] = "done"
\* asyncio.gather(*tasks): the coroutines are tasks of one event loop, and
\* each proceeds whenever its own await is over.
CanRun(i) == TRUE

\* Variant: gather without return_exceptions lets the first exception through.
GatherRaising(rets, completed) ==
    IF \E k \in DOMAIN completed : IsExc(rets[completed[k]])
    THEN LET k == CHOOSE k \in DOMAIN completed :
                     /\ IsExc(rets[completed[k]])
                     /\ \A m \in 1..(k - 1) : ~IsExc(rets[completed[m]])
         IN [ok |-> FALSE, exc |-> rets[completed[k]]]
    ELSE [ok |-> TRUE, val |-> rets]
\* Variant: the outcomes in the order of completion.
GatherCompletionOrder(rets, completed) ==
    [ok |-> TRUE, val |-> [k \in DOMAIN completed |-> rets[completed[k]]]]
\* asyncio.gather(*tasks, return_exceptions=True): the outcomes, exceptions
\* included, in the order of the awaitables.
Gather(rets, completed) == [ok |-> TRUE, val |-> rets]

\* Variant: only the results that carry tokens_used are kept.
ValidResultsWithTokens(results) ==
    SelectSeq(results, LAMBDA res : IsDict(res) /\ "tokens_used" \in DOMAIN res.d)
\* valid_results = [res for res in results if isinstance(res, dict)]
ValidResults(results) == SelectSeq(results, IsDict)

\* res.get("tokens_used", {}).get(field, 0)
TokensUsed(res, field) ==
    IF "tokens_used" \in DOMAIN res.d
    THEN IF field \in DOMAIN res.d.tokens_used THEN res.d.tokens_used[field] ELSE 0
    ELSE 0

\* Variant: total_tokens summed from input_tokens.
TokenSummaryCountingInput(valid_results) ==
    [total_questions |-> Len(valid_results),
     total_input_tokens |->
        SumSeq([k \in DOMAIN valid_results |-> TokensUsed(valid_results[k], "input_tokens")]),
     total_output_tokens |->
        SumSeq([k \in DOMAIN valid_results |-> TokensUsed(valid_results[k], "output_tokens")]),
     total_tokens |->
        SumSeq([k \in DOMAIN valid_results |-> TokensUsed(valid_results[k], "input_tokens")])]
\* Lines 144-149.
TokenSummary(valid_results) ==
    [total_questions |-> Len(valid_results),
     total_input_tokens |->
        SumSeq([k \in DOMAIN valid_results |-> TokensUsed(valid_results[k], "input_tokens")]),
     total_output_tokens |->
        SumSeq([k \in DOMAIN valid_results |-> TokensUsed(valid_results[k], "output_tokens")]),
     total_tokens |->
        SumSeq([k \in DOMAIN valid_results |-> TokensUsed(valid_results[k], "total_tokens")])]

\* What process_batch returns once the gather is over, or the exception it
\* lets through.
ProcessBatch(rets, completed) ==
    LET g == Gather(rets, completed)
    IN IF ~g.ok
       THEN g.exc
       ELSE LET valid_results == ValidResults(g.val)
            IN Dict([results |-> valid_results,
                     token_summary |-> TokenSummary(valid_results)])

----------------------------------------------------------------------------
(* solve_exam *)

InvalidFormat == "Invalid payload format. Expected JSON array."

\* not payload or not isinstance(payload, list)
InvalidPayload(payload) ==
    \/ payload.py = "none"
    \/ ~Truthy(payload.json)
    \/ ~IsList(payload.json)

\* The response Flask makes of an HTTPException that get_json raised.
HttpErrorResponse(exc) ==
    [status |-> IF exc.name = "BadRequest" THEN 400 ELSE 415,
     body |-> [html |-> exc.name]]

\* Lines 163-168: the try block around asyncio.run(process_batch(payload)).
SolveExamResponse(resolved_answers) ==
    IF IsExc(resolved_answers)
    THEN [status |-> 500, body |-> [error |-> "Internal server processing failure."]]
    ELSE [status |-> 200, body |-> resolved_answers.d]

NoResponse == [status |-> 0, body |-> [none |-> TRUE]]

Items == request.body.json.items
N == Len(tpc)
Question(i) == Items[i].obj

----------------------------------------------------------------------------
(* The state machine *)

Init ==
    /\ request \in Requests
    /\ pc = "received"
    /\ started = FALSE
    /\ tpc = <<>>
    /\ ret = <<>>
    /\ fetchOut = <<>>
    /\ vlm = <<>>
    /\ modelCalls = <<>>
    /\ order = <<>>
    /\ response = NoResponse

\* solve_exam up to its response or, through asyncio.run and process_batch,
\* up to the await of the gather: every coroutine has run to its first await,
\* in the order of the array.
SolveExam ==
    /\ pc = "received"
    /\ \E payload \in GetJson(request) :
         IF IsExc(payload)
         THEN /\ response' = HttpErrorResponse(payload)
              /\ pc' = "responded"
              /\ UNCHANGED <<started, tpc, ret, fetchOut, vlm, modelCalls, order>>
         ELSE IF InvalidPayload(payload)
         THEN /\ response' = [status |-> 400, body |-> [error |-> InvalidFormat]]
              /\ pc' = "responded"
              /\ UNCHANGED <<started, tpc, ret, fetchOut, vlm, modelCalls, order>>
         ELSE LET items == payload.json.items
                  first == [i \in DOMAIN items |-> EvaluateStart(items[i])]
              IN /\ started' = TRUE
                 /\ pc' = "gathering"
                 /\ tpc' = [i \in DOMAIN items |-> first[i].tpc]
                 /\ ret' = [i \in DOMAIN items |-> first[i].ret]
                 /\ modelCalls' = [i \in DOMAIN items |-> first[i].calls]
                 /\ fetchOut' = [i \in DOMAIN items |-> "none"]
                 /\ vlm' = [i \in DOMAIN items |-> "none"]
                 /\ order' = SelectSeq([i \in DOMAIN items |-> i],
                                       LAMBDA i : first[i].tpc = "done")
                 /\ UNCHANGED response
    /\ UNCHANGED request

\* The image fetch of question i ends, and its coroutine runs on to the model
\* call or to its end.
FetchImageDone(i) ==
    /\ pc = "gathering"
    /\ tpc[i] = "fetching"
    /\ CanRun(i)
    /\ \E out \in FetchOutcomes :
         LET next == AfterFetch(Question(i).question_id, FetchImageBase64(out))
         IN /\ fetchOut' = [fetchOut EXCEPT ![i] = out]
            /\ tpc' = [tpc EXCEPT ![i] = next.tpc]
            /\ ret' = [ret EXCEPT ![i] = next.ret]
            /\ modelCalls' = [modelCalls EXCEPT ![i] = @ + next.calls]
            /\ order' = IF next.tpc = "done" THEN Append(order, i) ELSE order
    /\ UNCHANGED <<request, pc, started, vlm, response>>

\* The model call of question i ends, and its coroutine returns.
ModelCallDone(i) ==
    /\ pc = "gathering"
    /\ tpc[i] = "calling"
    /\ CanRun(i)
    /\ \E resp \in ModelResponses(ResponseFormat(QuestionType(Question(i)))) :
         /\ vlm' = [vlm EXCEPT ![i] = VlmKind(resp)]
         /\ ret' = [ret EXCEPT ![i] =
                       AfterModelCall(Question(i).question_id, QuestionType(Question(i)), resp)]
    /\ tpc' = [tpc EXCEPT ![i] = "done"]
    /\ order' = Append(order, i)
    /\ UNCHANGED <<request, pc, started, fetchOut, modelCalls, response>>

\* Every coroutine is over: the gather returns, process_batch aggregates and
\* solve_exam answers.
GatherDone ==
    /\ pc = "gathering"
    /\ \A i \in 1..N : tpc[i] = "done"
    /\ response' = SolveExamResponse(ProcessBatch(ret, order))
    /\ pc' = "responded"
    /\ UNCHANGED <<request, started, tpc, ret, fetchOut, vlm, modelCalls, order>>

Next ==
    \/ SolveExam
    \/ \E i \in 1..N : FetchImageDone(i)
    \/ \E i \in 1..N : ModelCallDone(i)
    \/ GatherDone

Spec == Init /\ [][Next]_vars

----------------------------------------------------------------------------
(* Properties *)

Responded == pc = "responded"
IsArrayBody == request.body.raw = "json" /\ request.body.json.type = "array"
Results == response.body.results
Summary == response.body.token_summary
ZeroSummary ==
    [total_questions |-> 0, total_input_tokens |-> 0,
     total_output_tokens |-> 0, total_tokens |-> 0]

\* C1: a POST whose body is the empty JSON array is answered 200 with
\* results the empty list and every count of token_summary 0.
C1_EmptyArrayAnswered200 ==
    (Responded /\ request.ctype = "json" /\ IsArrayBody /\ Len(Items) = 0)
        => /\ response.status = 200
           /\ "results" \in DOMAIN response.body
           /\ Results = <<>>
           /\ Summary = ZeroSummary

\* C2: a request whose body is missing, is not JSON, or is JSON that is no
\* array is answered 400 with the invalid-format message, and process_batch
\* is never started for it.
C2_NonArrayRejectedWithMessage ==
    (Responded /\ request.ctype = "json" /\ ~IsArrayBody)
        => /\ response.status = 400
           /\ response.body = [error |-> InvalidFormat]
           /\ ~started

\* C3: when the image fetch of a question fails (connection error, error
\* status, timeout), the question's result is exactly
\* {question_id, error: "Image fetch failed"}, nothing is raised, and no
\* model call is made for it.
C3_FetchFailureIsErrorResult ==
    \A i \in 1..N :
        fetchOut[i] \in {"connection_error", "http_error", "timeout"}
            => /\ tpc[i] = "done"
               /\ ret[i] = ErrorResult(Question(i).question_id, "Image fetch failed")
               /\ modelCalls[i] = 0

\* C4: evaluate_single_question never raises: whatever the element and the
\* outcome of the fetch and of the model call, what it hands to process_batch
\* is a dict.
C4_EvaluatorAlwaysReturnsDict ==
    \A i \in 1..N : tpc[i] = "done" => IsDict(ret[i])

\* C5: when process_batch returns, results holds exactly one entry for each
\* question whose evaluation did not raise and none for one that raised:
\* its length is the number of questions minus the number that raised.
C5_OneResultPerQuestionNotRaised ==
    (Responded /\ started)
        => /\ "results" \in DOMAIN response.body
           /\ Len(Results) = N - Cardinality({i \in 1..N : IsExc(ret[i])})
           /\ \A i \in 1..N :
                 Cardinality({k \in DOMAIN Results : Results[k] = ret[i]})
                     = IF IsDict(ret[i]) THEN 1 ELSE 0
           /\ \A k \in DOMAIN Results : \E i \in 1..N : Results[k] = ret[i]
C5_Witness ==
    /\ Responded /\ started /\ N = 2
    /\ \E i, j \in 1..N : IsExc(ret[i]) /\ IsDict(ret[j])
    /\ Len(Results) = 1

RECURSIVE SumOver(_, _)
SumOver(S, f) ==
    IF S = {} THEN 0
    ELSE LET x == CHOOSE x \in S : TRUE IN f[x] + SumOver(S \ {x}, f)

\* The field of tokens_used of the k-th entry of results, 0 for an entry
\* without tokens_used.
EntryTokens(field) ==
    [k \in DOMAIN Results |->
        IF "tokens_used" \in DOMAIN Results[k].d
        THEN Results[k].d.tokens_used[field] ELSE 0]

\* C6: in every response of process_batch, total_questions is the number of
\* entries of results, and each token total is the sum of the matching field
\* of tokens_used over the entries, an entry without tokens_used counting 0.
C6_TokenSummaryIsSum ==
    (Responded /\ started /\ "results" \in DOMAIN response.body)
        => /\ Summary.total_questions = Len(Results)
           /\ Summary.total_input_tokens
                 = SumOver(DOMAIN Results, EntryTokens("input_tokens"))
           /\ Summary.total_output_tokens
                 = SumOver(DOMAIN Results, EntryTokens("output_tokens"))
           /\ Summary.total_tokens
                 = SumOver(DOMAIN Results, EntryTokens("total_tokens"))
C6_Witness ==
    /\ Responded /\ started /\ "results" \in DOMAIN response.body
    /\ Len(Results) = 2
    /\ "tokens_used" \in DOMAIN Results[1].d
    /\ "error" \in DOMAIN Results[2].d
    /\ Summary.total_tokens > Summary.total_input_tokens

\* C7: for a question whose model call succeeds, the answer follows
\* question_type: numerical gives a string text_answer and no
\* option_indices; msq gives option_indices of any length; every other
\* question_type, a missing one included, gives option_indices of exactly
\* one element.  The result carries tokens_used and no error.
C7_AnswerShapeFollowsType ==
    \A i \in 1..N :
        (tpc[i] = "done" /\ vlm[i] = "parsed")
            => /\ IsDict(ret[i])
               /\ "tokens_used" \in DOMAIN ret[i].d
               /\ "error" \notin DOMAIN ret[i].d
               /\ LET q == Question(i)
                      given == IF "question_type" \in DOMAIN q
                               THEN q.question_type ELSE "absent"
                      r == ret[i].d
                  IN CASE given = "numerical" ->
                             /\ "text_answer" \in DOMAIN r
                             /\ r.text_answer \in TextValues
                             /\ "option_indices" \notin DOMAIN r
                       [] given = "msq" ->
                             /\ "option_indices" \in DOMAIN r
                             /\ "text_answer" \notin DOMAIN r
                             /\ Len(r.option_indices) \in 0..2
                       [] OTHER ->
                             /\ "option_indices" \in DOMAIN r
                             /\ "text_answer" \notin DOMAIN r
                             /\ Len(r.option_indices) = 1
C7_Witness ==
    /\ N = 2
    /\ \A i \in 1..N : Items[i].type = "object"
    /\ "question_type" \notin DOMAIN Question(1)
    /\ tpc[1] = "done" /\ vlm[1] = "parsed" /\ Len(ret[1].d.option_indices) = 1
    /\ "question_type" \in DOMAIN Question(2)
    /\ Question(2).question_type = "msq"
    /\ tpc[2] = "done" /\ vlm[2] = "parsed" /\ ret[2].d.option_indices = <<>>

\* A question whose evaluation failed: an error result, or an exception.
Failed(i) == IsExc(ret[i]) \/ (IsDict(ret[i]) /\ "error" \in DOMAIN ret[i].d)

\* C8: one bad question never aborts the batch: when the request of a
\* started batch is answered, every evaluation has run to its end, the
\* result of every question that returned one is in results, and the status
\* is 200, not 500.
C8_BadQuestionDoesNotAbortBatch ==
    (Responded /\ started)
        => /\ response.status = 200
           /\ \A i \in 1..N : tpc[i] = "done"
           /\ \A i \in 1..N : IsDict(ret[i]) => ret[i] \in Range(Results)
C8_Witness ==
    /\ Responded /\ started /\ N = 2
    /\ IsExc(ret[1]) /\ fetchOut[1] = "timeout"
    /\ IsDict(ret[2]) /\ ~Failed(2)
    /\ response.status = 200 /\ ret[2] \in Range(Results)

\* C9: two questions of a batch do not block each other: as long as the
\* gather is pending, a question whose image fetch or model call is pending
\* can take its next step whatever the position of the other questions.
C9_QuestionsDoNotBlockEachOther ==
    \A i \in 1..N :
        (pc = "gathering" /\ tpc[i] # "done")
            => ENABLED (FetchImageDone(i) \/ ModelCallDone(i))
C9_Witness ==
    /\ pc = "gathering" /\ N = 2
    /\ \A i \in 1..N : Items[i].type = "object"
    /\ HasImage(Question(1)) /\ HasImage(Question(2))
    /\ tpc[1] = "fetching"
    /\ tpc[2] = "done" /\ fetchOut[2] = "ok" /\ modelCalls[2] = 1
    /\ IsDict(ret[2]) /\ ~Failed(2)

\* C10: whatever the order in which the evaluations complete, the entries of
\* results are in the order of their questions in the array.
C10_ResultsInInputOrder ==
    (Responded /\ started /\ "results" \in DOMAIN response.body)
        => \A a, b \in DOMAIN Results :
               a < b => Results[a].d.question_id < Results[b].d.question_id
C10_Witness ==
    /\ Responded /\ started
    /\ order = <<2, 1>>
    /\ Len(Results) = 2
    /\ Results[1].d.question_id = 1 /\ Results[2].d.question_id = 2

====
